---- MODULE Spec2Model ----
(***************************************************************************)
(* Model of core/search.py (rfb-analise): the keyword fingerprint of a     *)
(* company record, the validation of a search result against it, the       *)
(* search over the provider's results and the batch run on a thread pool.  *)
(*                                                                         *)
(* Text is a sequence of characters.  A character is a one-element name:   *)
(*   "a" "b" "c" ...  lowercase letters                                    *)
(*   "A"              uppercase a                                          *)
(*   "a^" "A^"        precomposed accented letters (U+00E1, U+00C1)        *)
(*   "^"              the combining acute accent (U+0301, category Mn)     *)
(*   " "              whitespace                                           *)
(* A Python value that may be null is a record [tipo, s]: tipo "str" with  *)
(* the text s, or "nan" (float NaN), "none" (None), "na" (pd.NA).          *)
(***************************************************************************)
EXTENDS Integers, Sequences, FiniteSets, TLC

(***************************************************************************)
(* Configuration constants, core/search.py lines 12-15.                    *)
(***************************************************************************)
NUM_THREADS == 4
MAX_RESULTS_PER_SEARCH == 3
\* VALIDATION_THRESHOLD = 0.2, kept as the fraction 2/10.  The code compares
\* the double len(found)/len(keys) with the double 0.2; both are correctly
\* rounded, so for set sizes below 2^50 the comparison agrees with the exact
\* one on rationals: found * 10 >= 2 * keys.
VALIDATION_THRESHOLD_NUM == 2
VALIDATION_THRESHOLD_DEN == 10

(***************************************************************************)
(* Bounds of the model.                                                    *)
(***************************************************************************)
MaxText == 3          \* longest candidate text drawn for the match rule
MaxFingerprint == 11  \* largest fingerprint drawn for the match rule
MaxSlashes == 2       \* most slashes at the end of a result's path
MaxRows == 5          \* most rows of the table given to buscar_em_lote
MaxCampos == 2        \* most columns holding a value in a record given to extrair_palavras_chave
MaxBanco == 2         \* most rows of the joined tables of the database
MaxBuscas == 3        \* most searches started on the Instagram page in a session

(***************************************************************************)
(* Python values.                                                          *)
(***************************************************************************)
Str(s) == [tipo |-> "str", s |-> s]
NaN == [tipo |-> "nan", s |-> <<>>]
None == [tipo |-> "none", s |-> <<>>]
NA == [tipo |-> "na", s |-> <<>>]

\* pd.isna(x)
IsNa(v) == v.tipo \in {"nan", "none", "na"}

\* bool(x) for the values above: "" and None are falsy, NaN is truthy
\* (a non-zero float); bool(pd.NA) raises TypeError and is handled by the
\* callers before Truthy is used.
Truthy(v) ==
    CASE v.tipo = "str" -> v.s /= <<>>
      [] v.tipo = "none" -> FALSE
      [] v.tipo = "nan" -> TRUE
      [] OTHER -> FALSE

\* str(x)
PyStr(v) ==
    CASE v.tipo = "str" -> v.s
      [] v.tipo = "nan" -> <<"n", "a", "n">>
      [] v.tipo = "none" -> <<"N", "o", "n", "e">>
      [] OTHER -> <<"<", "N", "A", ">">>

(***************************************************************************)
(* Character tables (unicodedata).                                         *)
(***************************************************************************)
Whitespace == {" "}
\* characters of category Mn (combining marks)
Mn == {"^"}

\* canonical decomposition of one character (NFD)
Decompose(c) ==
    CASE c = "a^" -> <<"a", "^">>
      [] c = "A^" -> <<"A", "^">>
      [] c = "i^" -> <<"i", "^">>
      [] c = "o^" -> <<"o", "^">>
      [] OTHER -> <<c>>

\* str.lower() on one character
LowerChar(c) ==
    CASE c = "A" -> "a"
      [] c = "A^" -> "a^"
      [] c = "B" -> "b"
      [] c = "C" -> "c"
      [] c = "M" -> "m"
      [] c = "N" -> "n"
      [] c = "S" -> "s"
      [] OTHER -> c

RECURSIVE NFD(_)
NFD(s) == IF s = <<>> THEN <<>> ELSE Decompose(Head(s)) \o NFD(Tail(s))

RECURSIVE RemoveMn(_)
RemoveMn(s) ==
    IF s = <<>> THEN <<>>
    ELSE IF Head(s) \in Mn THEN RemoveMn(Tail(s))
         ELSE <<Head(s)>> \o RemoveMn(Tail(s))

Lower(s) == [i \in 1..Len(s) |-> LowerChar(s[i])]

RECURSIVE LStrip(_)
LStrip(s) ==
    IF s /= <<>> /\ Head(s) \in Whitespace THEN LStrip(Tail(s)) ELSE s

RECURSIVE RStrip(_)
RStrip(s) ==
    IF s /= <<>> /\ s[Len(s)] \in Whitespace
    THEN RStrip(SubSeq(s, 1, Len(s) - 1)) ELSE s

\* str.strip()
Strip(s) == RStrip(LStrip(s))

\* str.split(): the maximal runs of non-whitespace characters, in order
RECURSIVE SplitFrom(_, _)
SplitFrom(s, cur) ==
    IF s = <<>> THEN (IF cur = <<>> THEN <<>> ELSE <<cur>>)
    ELSE IF Head(s) \in Whitespace
         THEN (IF cur = <<>> THEN <<>> ELSE <<cur>>) \o SplitFrom(Tail(s), <<>>)
         ELSE SplitFrom(Tail(s), Append(cur, Head(s)))

Split(s) == SplitFrom(s, <<>>)

\* p in s, for strings
IsSubstring(p, s) ==
    \E i \in 0..(Len(s) - Len(p)) : SubSeq(s, i + 1, i + Len(p)) = p

Range(f) == {f[i] : i \in DOMAIN f}

\* The order in which Python iterates a set: arbitrary but fixed for a given
\* set within one process.  Every element is produced once.
RECURSIVE IterOrder(_)
IterOrder(S) ==
    IF S = {} THEN <<>>
    ELSE LET x == CHOOSE y \in S : TRUE
         IN <<x>> \o IterOrder(S \ {x})

RECURSIVE SelectIn(_, _)
SelectIn(seq, s) ==
    IF seq = <<>> THEN <<>>
    ELSE IF IsSubstring(Head(seq), s)
         THEN <<Head(seq)>> \o SelectIn(Tail(seq), s)
         ELSE SelectIn(Tail(seq), s)

(***************************************************************************)
(* normalizar_texto                                                        *)
(***************************************************************************)
\* the text not converted to lowercase
normalizar_texto_sem_lower(texto) ==
    IF IsNa(texto) THEN <<>>
    ELSE Strip(RemoveMn(NFD(PyStr(texto))))

normalizar_texto(texto) ==
    IF IsNa(texto) THEN <<>>
    ELSE Strip(Lower(RemoveMn(NFD(PyStr(texto)))))

(***************************************************************************)
(* verificar_correspondencia_descricao: returns the pair                   *)
(* (tem_correspondencia, palavras_encontradas).                            *)
(***************************************************************************)
NoMatch == [tem |-> FALSE, palavras |-> <<>>]

\* the ratio compared with > instead of >=
TaxaSuficienteEstrita(encontradas, total) ==
    encontradas * VALIDATION_THRESHOLD_DEN > VALIDATION_THRESHOLD_NUM * total

TaxaSuficiente(encontradas, total) ==
    encontradas * VALIDATION_THRESHOLD_DEN >= VALIDATION_THRESHOLD_NUM * total

TemCorrespondencia(encontradas, total) ==
    TaxaSuficiente(encontradas, total) \/ encontradas >= 2

\* an empty fingerprint taken as "every keyword was found"
verificar_vazio_corresponde(palavras_chave_empresa, descricao) ==
    IF palavras_chave_empresa = {} THEN [tem |-> TRUE, palavras |-> <<>>]
    ELSE IF ~Truthy(descricao) \/ IsNa(descricao) THEN NoMatch
    ELSE LET descricao_norm == normalizar_texto(descricao)
             palavras_encontradas ==
                 SelectIn(IterOrder(palavras_chave_empresa), descricao_norm)
         IN IF palavras_encontradas = <<>> THEN NoMatch
            ELSE [tem |-> TemCorrespondencia(Len(palavras_encontradas),
                                             Cardinality(palavras_chave_empresa)),
                  palavras |-> palavras_encontradas]

verificar_correspondencia_descricao(palavras_chave_empresa, descricao) ==
    IF palavras_chave_empresa = {} \/ ~Truthy(descricao) \/ IsNa(descricao)
    THEN NoMatch
    ELSE LET descricao_norm == normalizar_texto(descricao)
             palavras_encontradas ==
                 SelectIn(IterOrder(palavras_chave_empresa), descricao_norm)
         IN IF palavras_encontradas = <<>> THEN NoMatch
            ELSE [tem |-> TemCorrespondencia(Len(palavras_encontradas),
                                             Cardinality(palavras_chave_empresa)),
                  palavras |-> palavras_encontradas]

(***************************************************************************)
(* extrair_palavras_chave.  A record (pd.Series) is a function from the    *)
(* column names it has to values.                                          *)
(***************************************************************************)
campos_texto ==
    <<"razao_social", "nome_fantasia", "logradouro", "complemento",
      "cnpj_basico", "bairro", "correio_eletronico", "telefone1",
      "cep_limpo", "municipio_nome">>

palavras_comuns ==
    { <<"l", "t", "d", "a">>, <<"c", "i", "a">>,
      <<"c", "o", "m", "e", "r", "c", "i", "a", "l">>,
      <<"i", "n", "d", "u", "s", "t", "r", "i", "a">>,
      <<"s", "e", "r", "v", "i", "c", "o", "s">>,
      <<"e", "i", "r", "e", "l", "i">>, <<"m", "e">>, <<"s", "a">>,
      <<"e", "m", "p", "r", "e", "s", "a">>, <<"r", "u", "a">>,
      <<"a", "v", "e", "n", "i", "d", "a">>,
      <<"c", "e", "n", "t", "r", "o">>, <<"b", "a", "i", "r", "r", "o">>,
      <<"c", "o", "m">>, <<"b", "r">>, <<"g", "o", "v">> }

\* the tokens of one column when words of one character are kept
PalavrasCampoSemTamanho(empresa_data, campo) ==
    IF campo \in DOMAIN empresa_data /\ ~IsNa(empresa_data[campo])
    THEN LET valor == empresa_data[campo]
         IN IF Truthy(valor) /\ Strip(PyStr(valor)) /= <<>>
            THEN Range(Split(normalizar_texto(valor)))
            ELSE {}
    ELSE {}

\* the tokens one column contributes (lines 52-56)
PalavrasCampo(empresa_data, campo) ==
    IF campo \in DOMAIN empresa_data /\ ~IsNa(empresa_data[campo])
    THEN LET valor == empresa_data[campo]
         IN IF Truthy(valor) /\ Strip(PyStr(valor)) /= <<>>
            THEN {p \in Range(Split(normalizar_texto(valor))) : Len(p) >= 2}
            ELSE {}
    ELSE {}

\* the tokens of the columns with the stop words left in
extrair_sem_stoplist(empresa_data) ==
    UNION {PalavrasCampo(empresa_data, campos_texto[i]) : i \in DOMAIN campos_texto}

extrair_palavras_chave(empresa_data) ==
    UNION {PalavrasCampo(empresa_data, campos_texto[i]) :
              i \in DOMAIN campos_texto} \ palavras_comuns

(***************************************************************************)
(* URLs.  A URL is a sequence of pieces, each a literal stretch of         *)
(* characters; the pieces "instagram.com", "?" and "/" are the only ones   *)
(* that contain those characters, so the string tests of the code are      *)
(* tests on pieces.                                                        *)
(***************************************************************************)
\* "instagram.com" in url
MencionaInstagram(url) == \E i \in DOMAIN url : url[i] = "instagram.com"

\* url.split("?")[0]
RECURSIVE AntesDaInterrogacao(_)
AntesDaInterrogacao(url) ==
    IF url = <<>> \/ Head(url) = "?" THEN <<>>
    ELSE <<Head(url)>> \o AntesDaInterrogacao(Tail(url))

\* if clean_url.endswith('/'): clean_url = clean_url[:-1]
TiraBarraFinal(url) ==
    IF url /= <<>> /\ url[Len(url)] = "/"
    THEN SubSeq(url, 1, Len(url) - 1) ELSE url

LimpaUrl(url) == TiraBarraFinal(AntesDaInterrogacao(url))

(***************************************************************************)
(* buscar_e_validar_perfil.  The provider's behaviour for one query is     *)
(* resposta = [falha, resultados]: the results it yields, in order, and    *)
(* where it fails: "none", "open" (DDGS(timeout=10) raises), "query"       *)
(* (ddgs.text raises, a timeout included) or "iter" (the iteration raises  *)
(* after the listed results were yielded).                                 *)
(* The value returned carries, besides (url, palavras), what happened:     *)
(* exc (an exception left the function), falhou (the provider raised),     *)
(* examinados (how many results were taken from the provider), origem      *)
(* (the position of the result returned, 0 if none) and eventos (the calls *)
(* made to the outside, in order).                                         *)
(***************************************************************************)
Descricao(resultado) == resultado.body \o <<" ">> \o resultado.title

\* the loop of lines 109-124 from result k on
RECURSIVE Percorrer(_, _, _)
Percorrer(resultados, k, palavras_chave_empresa) ==
    IF k > Len(resultados)
    THEN [achou |-> FALSE, url |-> None, palavras |-> <<>>,
          examinados |-> Len(resultados), origem |-> 0]
    ELSE LET resultado == resultados[k]
             url == resultado.href
             v == verificar_correspondencia_descricao(
                      palavras_chave_empresa, Str(Descricao(resultado)))
         IN IF MencionaInstagram(url) /\ v.tem
            THEN [achou |-> TRUE, url |-> Str(LimpaUrl(url)),
                  palavras |-> v.palavras, examinados |-> k, origem |-> k]
            ELSE Percorrer(resultados, k + 1, palavras_chave_empresa)

\* the body of the try block, lines 107-126
BuscaCorpo(termo_busca, palavras_chave_empresa, resposta) ==
    IF resposta.falha = "open"
    THEN [exc |-> TRUE, falhou |-> TRUE, url |-> None, palavras |-> <<>>,
          examinados |-> 0, origem |-> 0, eventos |-> <<"DDGS">>]
    ELSE IF resposta.falha = "query"
    THEN [exc |-> TRUE, falhou |-> TRUE, url |-> None, palavras |-> <<>>,
          examinados |-> 0, origem |-> 0, eventos |-> <<"DDGS", "text">>]
    ELSE LET r == Percorrer(resposta.resultados, 1, palavras_chave_empresa)
             falhou == ~r.achou /\ resposta.falha = "iter"
         IN [exc |-> falhou, falhou |-> falhou, url |-> r.url,
             palavras |-> r.palavras, examinados |-> r.examinados,
             origem |-> r.origem, eventos |-> <<"DDGS", "text">>]

\* the search without its except clause: the exception leaves the function
buscar_sem_except(termo_busca, palavras_chave_empresa, resposta) ==
    BuscaCorpo(termo_busca, palavras_chave_empresa, resposta)

\* the except clause prints and raises the exception again
buscar_relanca(termo_busca, palavras_chave_empresa, resposta) ==
    LET c == BuscaCorpo(termo_busca, palavras_chave_empresa, resposta)
    IN IF c.exc THEN [c EXCEPT !.eventos = Append(c.eventos, "print")] ELSE c

\* except Exception as e: print(...); return None, []   (lines 127-130)
buscar_e_validar_perfil(termo_busca, palavras_chave_empresa, resposta) ==
    LET c == BuscaCorpo(termo_busca, palavras_chave_empresa, resposta)
    IN IF c.exc
       THEN [c EXCEPT !.exc = FALSE, !.url = None, !.palavras = <<>>,
                      !.origem = 0, !.eventos = Append(c.eventos, "print")]
       ELSE c

(***************************************************************************)
(* processar_empresa.                                                      *)
(***************************************************************************)
\* empresa_dados.get(campo, '')
Get(empresa_dados, campo) ==
    IF campo \in DOMAIN empresa_dados THEN empresa_dados[campo] ELSE Str(<<>>)

\* the characters the model uses, in code point order (only the order is used)
OrdemChars ==
    <<" ", "\"", "1", "2", "<", ">", "A", "B", "C", "M", "N", "S",
      "a", "b", "c", "d", "e", "g", "i", "l", "m", "n", "o", "r", "s", "t",
      "u", "v", "A^", "a^", "^">>

CodePoint(c) == CHOOSE i \in DOMAIN OrdemChars : OrdemChars[i] = c

\* s < t for strings
RECURSIVE StrLess(_, _)
StrLess(s, t) ==
    IF t = <<>> THEN FALSE
    ELSE IF s = <<>> THEN TRUE
    ELSE IF Head(s) = Head(t) THEN StrLess(Tail(s), Tail(t))
    ELSE CodePoint(Head(s)) < CodePoint(Head(t))

\* sorted(list(S))
RECURSIVE Sorted(_)
Sorted(S) ==
    IF S = {} THEN <<>>
    ELSE LET m == CHOOSE x \in S : \A y \in S \ {x} : StrLess(x, y)
         IN <<m>> \o Sorted(S \ {m})

\* ", ".join(seq)
RECURSIVE Join(_)
Join(seq) ==
    IF seq = <<>> THEN <<>>
    ELSE IF Len(seq) = 1 THEN Head(seq)
    ELSE Head(seq) \o <<",", " ">> \o Join(Tail(seq))

\* f'"{razao_social}" {municipio} instagram'
Termo(razao_social, municipio) ==
    <<"\"">> \o PyStr(razao_social) \o <<"\"", " ">> \o PyStr(municipio)
        \o <<" ", "i", "n", "s", "t", "a", "g", "r", "a", "m">>

Lista(itens) == [tipo |-> "list", s |-> itens]

DadosInsuficientes == <<"Dados insuficientes">>
NaoEncontrado == <<"Nao encontrado">>      \* the string "Não encontrado"

NaoBuscou ==
    [exc |-> FALSE, falhou |-> FALSE, url |-> None, palavras |-> <<>>,
     examinados |-> 0, origem |-> 0, eventos |-> <<>>]

SemOutcome == [status_validacao |-> "nenhum outcome"]

\* lines 142-146
OutcomeInsuficiente(cnpj, razao_social, municipio) ==
    [cnpj_basico |-> cnpj, razao_social |-> razao_social,
     municipio |-> municipio, instagram_url |-> DadosInsuficientes,
     status_validacao |-> "Falha", palavras_encontradas |-> Lista(<<>>),
     palavras_chave_usadas |-> Lista(<<>>)]

\* the outcome built without the "Não encontrado" sentinel
PesquisaSemSentinela(empresa_dados, cnpj, razao_social, municipio, resposta) ==
    LET palavras_chave == extrair_palavras_chave(empresa_dados)
        termo == Termo(razao_social, municipio)
        b == buscar_e_validar_perfil(termo, palavras_chave, resposta)
        status == IF Truthy(b.url) THEN "Perfil Validado"
                  ELSE "Nenhum perfil validado"
    IN [exc |-> b.exc,
        outcome |-> IF b.exc THEN SemOutcome
                    ELSE [cnpj_basico |-> cnpj, razao_social |-> razao_social,
                          municipio |-> municipio, instagram_url |-> b.url.s,
                          status_validacao |-> status,
                          palavras_encontradas |-> Str(Join(b.palavras)),
                          palavras_chave_usadas |-> Str(Join(Sorted(palavras_chave)))],
        termo |-> termo,
        eventos |-> <<"sleep">> \o b.eventos,
        busca |-> b]

\* lines 148-164
Pesquisa(empresa_dados, cnpj, razao_social, municipio, resposta) ==
    LET palavras_chave == extrair_palavras_chave(empresa_dados)
        termo == Termo(razao_social, municipio)
        b == buscar_e_validar_perfil(termo, palavras_chave, resposta)
        status == IF Truthy(b.url) THEN "Perfil Validado"
                  ELSE "Nenhum perfil validado"
        url_final == IF Truthy(b.url) THEN b.url.s ELSE NaoEncontrado
    IN [exc |-> b.exc,
        outcome |-> IF b.exc THEN SemOutcome
                    ELSE [cnpj_basico |-> cnpj, razao_social |-> razao_social,
                          municipio |-> municipio, instagram_url |-> url_final,
                          status_validacao |-> status,
                          palavras_encontradas |-> Str(Join(b.palavras)),
                          palavras_chave_usadas |-> Str(Join(Sorted(palavras_chave)))],
        termo |-> termo,
        eventos |-> <<"sleep">> \o b.eventos,
        busca |-> b]

\* The record returned carries exc (an exception left processar_empresa),
\* the outcome dictionary, the search term, the calls made to the outside
\* (time.sleep, DDGS, ddgs.text, print) and what the search returned.
processar_empresa(empresa_dados, resposta) ==
    LET cnpj == Get(empresa_dados, "cnpj_basico")
        razao_social == Get(empresa_dados, "razao_social")
        municipio == Get(empresa_dados, "municipio_nome")
        insuficiente ==
            [exc |-> FALSE,
             outcome |-> OutcomeInsuficiente(cnpj, razao_social, municipio),
             termo |-> <<>>, eventos |-> <<>>, busca |-> NaoBuscou]
        \* bool(pd.NA) raises TypeError
        erro == [exc |-> TRUE, outcome |-> SemOutcome, termo |-> <<>>,
                 eventos |-> <<>>, busca |-> NaoBuscou]
    IN IF razao_social.tipo = "na" THEN erro
       ELSE IF ~Truthy(razao_social) THEN insuficiente
       ELSE IF municipio.tipo = "na" THEN erro
       ELSE IF ~Truthy(municipio) THEN insuficiente
       ELSE Pesquisa(empresa_dados, cnpj, razao_social, municipio, resposta)

(***************************************************************************)
(* State.                                                                  *)
(***************************************************************************)
VARIABLES
    m_palavras,   \* verificar_correspondencia_descricao: argument palavras_chave_empresa
    m_descricao,  \* verificar_correspondencia_descricao: argument descricao
    m_ret,        \* its return value, or Pending before the call
    p_empresa,    \* processar_empresa: argument empresa_dados
    p_resposta,   \* what the search provider does with this record's query
    p_ret,        \* what processar_empresa returned, or PendingP before the call
    l_linhas,     \* buscar_em_lote: the rows of empresas_df, in order
    l_respostas,  \* per row, what the search provider does with its query
    l_pc,         \* where buscar_em_lote is: "submit", "collect", "returned"
    l_tarefa,     \* per row, its task: "none", "queued", "running", "finished"
    l_retorno,    \* per row, what its task returned or raised once finished
    l_coletados,  \* the futures as_completed has yielded so far
    l_resultados, \* the list resultados; each entry keeps the row it is for
    l_erros,      \* how many times line 186 printed
    e_empresa,    \* extrair_palavras_chave: argument empresa_data
    e_ret,        \* its return value, or PendingE before the call
    f_banco,      \* the rows of estabelecimentos joined with their CNAEs
    f_filtros,    \* carregar_dados_filtrados: its arguments
    f_df,         \* the DataFrame it returned, or PendingF before the call
    g_in_progress, \* st.session_state.scraping_in_progress
    g_results,    \* st.session_state.scraping_results: None or a DataFrame
    g_thread,     \* st.session_state.scraping_thread: None or a thread
    g_threads,    \* per thread started, where run_scraping_thread is
    a_banco,      \* app.py: the database the session reads
    a_sessao,     \* the four filter selections of st.session_state
    a_usados,     \* the selections carregar_dados read when it loaded df_filtrado
    a_df          \* st.session_state.df_filtrado

match_vars == <<m_palavras, m_descricao, m_ret>>
busca_vars == <<p_empresa, p_resposta, p_ret>>
lote_vars ==
    <<l_linhas, l_respostas, l_pc, l_tarefa, l_retorno, l_coletados, l_resultados, l_erros>>
extrai_vars == <<e_empresa, e_ret>>
filtro_vars == <<f_banco, f_filtros, f_df>>
pagina_vars == <<g_in_progress, g_results, g_thread, g_threads>>
app_vars == <<a_banco, a_sessao, a_usados, a_df>>
demais_vars == <<extrai_vars, filtro_vars, pagina_vars, app_vars>>
vars == <<match_vars, busca_vars, lote_vars, demais_vars>>

Pending == [tem |-> FALSE, palavras |-> << <<"pending">> >>]
Unused == [tem |-> FALSE, palavras |-> << <<"unused">> >>]

PendingP == [exc |-> FALSE, outcome |-> [status_validacao |-> "pending"]]
UnusedP == [exc |-> FALSE, outcome |-> [status_validacao |-> "unused"]]
SemResposta == [falha |-> "none", resultados |-> <<>>]
SemEmpresa == [c \in {} |-> None]

MatchUnused ==
    /\ m_palavras = {}
    /\ m_descricao = None
    /\ m_ret = Unused

BuscaUnused ==
    /\ p_empresa = SemEmpresa
    /\ p_resposta = SemResposta
    /\ p_ret = UnusedP

LoteUnused ==
    /\ l_linhas = <<>>
    /\ l_respostas = <<>>
    /\ l_pc = "unused"
    /\ l_tarefa = <<>>
    /\ l_retorno = <<>>
    /\ l_coletados = {}
    /\ l_resultados = <<>>
    /\ l_erros = 0

PendingE == [feito |-> FALSE, palavras |-> {<<"pending">>}]
UnusedE == [feito |-> FALSE, palavras |-> {<<"unused">>}]

ExtraiUnused ==
    /\ e_empresa = SemEmpresa
    /\ e_ret = UnusedE

PendingF == [feito |-> FALSE, linhas |-> <<"pending">>]
SemFiltros == [municipios |-> {}, cnaes |-> {}, situacoes |-> {},
               data_inicio |-> 0, data_fim |-> 0, falha |-> FALSE]

FiltroUnused ==
    /\ f_banco = <<>>
    /\ f_filtros = SemFiltros
    /\ f_df = [feito |-> FALSE, linhas |-> <<"unused">>]

\* None, for scraping_results and scraping_thread
Nenhum == 0

PaginaUnused ==
    /\ g_in_progress = FALSE
    /\ g_results = Nenhum
    /\ g_thread = Nenhum
    /\ g_threads = <<"unused">>

SemSelecao == [municipio_selecionado |-> {}, cnae_selecionado |-> {},
               situacao_selecionada |-> {}, periodo_selecionado |-> <<0, 0>>]

AppUnused ==
    /\ a_banco = <<>>
    /\ a_sessao = SemSelecao
    /\ a_usados = SemSelecao
    /\ a_df = <<"unused">>

DemaisUnused == ExtraiUnused /\ FiltroUnused /\ PaginaUnused /\ AppUnused


(***************************************************************************)
(* Inputs of the match rule.                                               *)
(***************************************************************************)
Chars == {"a", "b", "c", "A", "A^", "^", " "}

RECURSIVE SeqsUpTo(_, _)
SeqsUpTo(S, n) ==
    IF n = 0 THEN {<<>>}
    ELSE LET shorter == SeqsUpTo(S, n - 1)
         IN shorter \cup {Append(s, x) : s \in shorter, x \in S}

Texts == SeqsUpTo(Chars, MaxText)

\* normalized tokens of two or three letters
TokenSeq ==
    << <<"a", "b">>, <<"b", "c">>, <<"a", "a">>, <<"c", "a">>, <<"c", "c">>,
       <<"b", "a">>, <<"b", "b">>, <<"a", "c">>, <<"c", "b">>,
       <<"a", "b", "c">>, <<"c", "b", "a">>, <<"a", "a", "a">>,
       <<"b", "b", "b">>, <<"c", "c", "c">> >>

Min(a, b) == IF a < b THEN a ELSE b

Fingerprints ==
    {{TokenSeq[i] : i \in lo..Min(hi, Len(TokenSeq))} :
        lo \in 1..3, hi \in 0..MaxFingerprint}

Descricoes == {Str(t) : t \in Texts} \cup {NaN, None}

InitMatch ==
    /\ m_palavras \in Fingerprints
    /\ m_descricao \in Descricoes
    /\ m_ret = Pending
    /\ BuscaUnused
    /\ LoteUnused
    /\ DemaisUnused

Verificar ==
    /\ m_ret = Pending
    /\ m_ret' = verificar_correspondencia_descricao(m_palavras, m_descricao)
    /\ UNCHANGED <<m_palavras, m_descricao, busca_vars, lote_vars, demais_vars>>

(***************************************************************************)
(* Inputs of processar_empresa: the record and the provider's behaviour.   *)
(***************************************************************************)
Absent == [tipo |-> "absent", s |-> <<>>]

\* the record with the given columns; a column whose value is Absent is not
\* in the record
Empresa(cnpj, razao, fantasia, municipio) ==
    LET f == [c \in {"cnpj_basico", "razao_social", "nome_fantasia",
                     "municipio_nome"} |->
                 CASE c = "cnpj_basico" -> cnpj
                   [] c = "razao_social" -> razao
                   [] c = "nome_fantasia" -> fantasia
                   [] OTHER -> municipio]
    IN [c \in {d \in DOMAIN f : f[d] /= Absent} |-> f[c]]

RazaoValores ==
    {Absent, Str(<<>>), NaN, None, NA, Str(<<" ">>),
     Str(<<"A", "b", " ", "c", "a^">>), Str(<<"M", "e">>)}

MunicipioValores ==
    {Absent, Str(<<>>), NaN, None, NA, Str(<<"b", "b">>), Str(<<"S", "a">>)}

FantasiaValores == {Absent, Str(<<"c", "c", " ", "a", "b">>)}

CnpjValores == {Absent, Str(<<"1", "2">>)}

Empresas ==
    {Empresa(c, r, f, m) : c \in CnpjValores, r \in RazaoValores,
                           f \in FantasiaValores, m \in MunicipioValores}

\* records that reach the search: three, five and no keywords
EmpresasBusca ==
    { Empresa(Absent, Str(<<"A", "b", " ", "c", "a^">>), Absent, Str(<<"b", "b">>)),
      Empresa(Str(<<"1", "2">>), Str(<<"A", "b", " ", "c", "a^">>),
              Str(<<"c", "c", " ", "a", "b">>), Str(<<"b", "b">>)),
      Empresa(Absent, Str(<<"M", "e">>), Absent, Str(<<"S", "a">>)) }

\* absolute URLs: scheme, host, path, query
Hosts ==
    { <<"instagram.com">>, <<"www.", "instagram.com">>, <<"example.com">>,
      <<"not", "instagram.com">> }

RECURSIVE Barras(_)
Barras(n) == IF n = 0 THEN <<>> ELSE <<"/">> \o Barras(n - 1)

Caminhos ==
    {<<>>, <<"/", "instagram.com">>}
        \cup {<<"/", "perfil">> \o Barras(n) : n \in 0..MaxSlashes}

Consultas ==
    { <<>>, <<"?", "hl=pt">>, <<"?", "u=", "instagram.com">>,
      <<"?", "next=", "/">>, <<"?", "a", "?", "b">> }

Url(host, caminho, consulta) == <<"https://">> \o host \o caminho \o consulta

Urls == {Url(h, c, q) : h \in Hosts, c \in Caminhos, q \in Consultas}
            \cup {<<>>}      \* a result without "href"

UrlsPequeno ==
    { Url(<<"instagram.com">>, <<"/", "perfil">>, <<"?", "hl=pt">>),
      Url(<<"www.", "instagram.com">>, <<"/", "perfil", "/">>, <<>>),
      Url(<<"example.com">>, <<"/", "instagram.com">>, <<>>),
      Url(<<"example.com">>, <<"/", "perfil">>, <<>>) }

\* (body, title) of a result: nothing, one keyword, two keywords
TextosResultado ==
    { [body |-> <<>>, title |-> <<>>],
      [body |-> <<"x", "a", "b", "x">>, title |-> <<>>],
      [body |-> <<"B", "b">>, title |-> <<"C", "A^", " ", "m", "e">>] }

Resultado(href, t) == [href |-> href, body |-> t.body, title |-> t.title]

Resultados == {Resultado(u, t) : u \in Urls, t \in TextosResultado}

ResultadosPequeno == {Resultado(u, t) : u \in UrlsPequeno, t \in TextosResultado}

\* the provider yields at most max_results results and fails nowhere, or
\* while iterating, or before it yields anything
RespostasDe(R, n) ==
    {[falha |-> f, resultados |-> rs] :
        f \in {"none", "iter"}, rs \in SeqsUpTo(R, n)}
    \cup {[falha |-> f, resultados |-> <<>>] : f \in {"open", "query"}}

InitBusca ==
    /\ \/ /\ p_empresa \in Empresas
          /\ p_resposta \in RespostasDe(ResultadosPequeno, 1)
       \/ /\ p_empresa \in EmpresasBusca
          /\ p_resposta \in RespostasDe(ResultadosPequeno, MAX_RESULTS_PER_SEARCH)
                             \cup RespostasDe(Resultados, 1)
    /\ p_ret = PendingP
    /\ MatchUnused
    /\ LoteUnused
    /\ DemaisUnused

ProcessarEmpresa ==
    /\ p_ret = PendingP
    /\ p_ret' = processar_empresa(p_empresa, p_resposta)
    /\ UNCHANGED <<match_vars, p_empresa, p_resposta, lote_vars, demais_vars>>

NextBusca == ProcessarEmpresa

SpecBusca == InitBusca /\ [][NextBusca]_vars

NextMatch == Verificar

SpecMatch == InitMatch /\ [][NextMatch]_vars

(***************************************************************************)
(* buscar_em_lote: a ThreadPoolExecutor of NUM_THREADS workers, one task   *)
(* per row, the results collected with as_completed.                       *)
(***************************************************************************)
\* rows: one that is searched, one without legal name, one whose legal name
\* is pd.NA (its task raises TypeError)
EmpresasLote ==
    { Empresa(Str(<<"1", "2">>), Str(<<"A", "b", " ", "c", "a^">>), Absent,
              Str(<<"b", "b">>)),
      Empresa(Str(<<"1", "2">>), Absent, Absent, Str(<<"b", "b">>)),
      Empresa(Str(<<"1", "2">>), NA, Absent, Str(<<"b", "b">>)) }

\* the provider returns a matching profile, or fails on the query
RespostaPerfil ==
    [falha |-> "none",
     resultados |->
         << Resultado(Url(<<"instagram.com">>, <<"/", "perfil">>, <<>>),
                      [body |-> <<"B", "b">>, title |-> <<>>]) >>]

RespostaFalha == [falha |-> "query", resultados |-> <<>>]

EmpresaComum ==
    Empresa(Str(<<"1", "2">>), Str(<<"A", "b", " ", "c", "a^">>), Absent,
            Str(<<"b", "b">>))

\* a row and the provider's behaviour for it: (the ordinary row, a profile)
\* or one of the special cases
CasosEspeciais ==
    {[empresa |-> e, resposta |-> RespostaPerfil] : e \in EmpresasLote}
        \cup {[empresa |-> EmpresaComum, resposta |-> RespostaFalha]}

\* tables of n rows in which at most one row is a special case
Tabelas(n) ==
    {[i \in 1..n |-> IF i = k THEN c
                     ELSE [empresa |-> EmpresaComum, resposta |-> RespostaPerfil]] :
        k \in 0..n, c \in CasosEspeciais}

Linhas == DOMAIN l_linhas

NaoTerminou == [exc |-> FALSE, outcome |-> [status_validacao |-> "pending"]]

InitLote ==
    /\ \E n \in 0..MaxRows : \E t \in Tabelas(n) :
          /\ l_linhas = [i \in 1..n |-> t[i].empresa]
          /\ l_respostas = [i \in 1..n |-> t[i].resposta]
    /\ l_pc = "submit"
    /\ l_tarefa = [i \in Linhas |-> "none"]
    /\ l_retorno = [i \in Linhas |-> NaoTerminou]
    /\ l_coletados = {}
    /\ l_resultados = <<>>
    /\ l_erros = 0
    /\ MatchUnused
    /\ BuscaUnused
    /\ DemaisUnused

\* executor.submit(processar_empresa, row), for the next row of iterrows()
Submit ==
    /\ l_pc = "submit"
    /\ \E i \in Linhas :
          /\ l_tarefa[i] = "none"
          /\ \A j \in Linhas : j < i => l_tarefa[j] /= "none"
          /\ l_tarefa' = [l_tarefa EXCEPT ![i] = "queued"]
    /\ UNCHANGED <<l_linhas, l_respostas, l_pc, l_retorno, l_coletados, l_resultados,
                   l_erros, match_vars, busca_vars, demais_vars>>

\* the list of futures is complete: enter the as_completed loop
StartCollect ==
    /\ l_pc = "submit"
    /\ \A i \in Linhas : l_tarefa[i] /= "none"
    /\ l_pc' = "collect"
    /\ UNCHANGED <<l_linhas, l_respostas, l_tarefa, l_retorno, l_coletados, l_resultados,
                   l_erros, match_vars, busca_vars, demais_vars>>

Running == {i \in Linhas : l_tarefa[i] = "running"}

\* a thread per task: no limit on the tasks that run at once
StartTaskSemLimite ==
    /\ \E i \in Linhas :
          /\ l_tarefa[i] = "queued"
          /\ \A j \in Linhas : j < i => l_tarefa[j] /= "queued"
          /\ l_tarefa' = [l_tarefa EXCEPT ![i] = "running"]
    /\ UNCHANGED <<l_linhas, l_respostas, l_pc, l_retorno, l_coletados, l_resultados,
                   l_erros, match_vars, busca_vars, demais_vars>>

\* a worker takes the oldest queued task; there are at most NUM_THREADS workers
StartTask ==
    /\ Cardinality(Running) < NUM_THREADS
    /\ \E i \in Linhas :
          /\ l_tarefa[i] = "queued"
          /\ \A j \in Linhas : j < i => l_tarefa[j] /= "queued"
          /\ l_tarefa' = [l_tarefa EXCEPT ![i] = "running"]
    /\ UNCHANGED <<l_linhas, l_respostas, l_pc, l_retorno, l_coletados, l_resultados,
                   l_erros, match_vars, busca_vars, demais_vars>>

\* processar_empresa(row) returns or raises in its worker
FinishTask ==
    \E i \in Linhas :
        /\ l_tarefa[i] = "running"
        /\ l_tarefa' = [l_tarefa EXCEPT ![i] = "finished"]
        /\ l_retorno' = [l_retorno EXCEPT
                            ![i] = processar_empresa(l_linhas[i], l_respostas[i])]
        /\ UNCHANGED <<l_linhas, l_respostas, l_pc, l_coletados, l_resultados, l_erros,
                       match_vars, busca_vars, demais_vars>>

\* the loop without its try: the exception of a task leaves buscar_em_lote
CollectPropaga ==
    /\ l_pc = "collect"
    /\ \E i \in Linhas \ l_coletados :
          /\ l_tarefa[i] = "finished"
          /\ l_coletados' = l_coletados \cup {i}
          /\ IF l_retorno[i].exc
             THEN /\ l_pc' = "raised"
                  /\ UNCHANGED <<l_resultados, l_erros>>
             ELSE /\ l_resultados' =
                        Append(l_resultados,
                               [linha |-> i, outcome |-> l_retorno[i].outcome])
                  /\ UNCHANGED <<l_pc, l_erros>>
    /\ UNCHANGED <<l_linhas, l_respostas, l_tarefa, l_retorno, match_vars, busca_vars, demais_vars>>

\* the loop without its try: the exception of a task ends buscar_em_lote
CollectSemTry ==
    /\ l_pc = "collect"
    /\ \E i \in Linhas \ l_coletados :
          /\ l_tarefa[i] = "finished"
          /\ l_coletados' = l_coletados \cup {i}
          /\ IF l_retorno[i].exc
             THEN /\ l_pc' = "returned"
                  /\ UNCHANGED <<l_resultados, l_erros>>
             ELSE /\ l_resultados' =
                        Append(l_resultados,
                               [linha |-> i, outcome |-> l_retorno[i].outcome])
                  /\ UNCHANGED <<l_pc, l_erros>>
    /\ UNCHANGED <<l_linhas, l_respostas, l_tarefa, l_retorno, match_vars, busca_vars, demais_vars>>

\* one turn of the loop of lines 182-186: as_completed yields a finished
\* future not yielded before; future.result() returns the outcome, which is
\* appended, or raises the task's exception, which is printed
Collect ==
    /\ l_pc = "collect"
    /\ \E i \in Linhas \ l_coletados :
          /\ l_tarefa[i] = "finished"
          /\ l_coletados' = l_coletados \cup {i}
          /\ IF l_retorno[i].exc
             THEN /\ l_erros' = l_erros + 1
                  /\ UNCHANGED l_resultados
             ELSE /\ l_resultados' =
                        Append(l_resultados,
                               [linha |-> i, outcome |-> l_retorno[i].outcome])
                  /\ UNCHANGED l_erros
    /\ UNCHANGED <<l_linhas, l_respostas, l_pc, l_tarefa, l_retorno, match_vars, busca_vars, demais_vars>>

\* the function returns once the futures that are done have been collected,
\* without waiting for the others
ReturnSemEsperar ==
    /\ l_pc = "collect"
    /\ \A i \in Linhas : l_tarefa[i] = "finished" => i \in l_coletados
    /\ l_pc' = "returned"
    /\ UNCHANGED <<l_linhas, l_respostas, l_tarefa, l_retorno, l_coletados, l_resultados,
                   l_erros, match_vars, busca_vars, demais_vars>>

\* as_completed is exhausted; the with block waits for the workers
\* (shutdown(wait=True)) and the function returns resultados
Return ==
    /\ l_pc = "collect"
    /\ l_coletados = Linhas
    /\ \A i \in Linhas : l_tarefa[i] = "finished"
    /\ l_pc' = "returned"
    /\ UNCHANGED <<l_linhas, l_respostas, l_tarefa, l_retorno, l_coletados, l_resultados,
                   l_erros, match_vars, busca_vars, demais_vars>>

NextLote == Submit \/ StartCollect \/ StartTask \/ FinishTask \/ Collect \/ Return

SpecLote == InitLote /\ [][NextLote]_vars

\* the scheduler is fair to the main thread and to the workers, and every
\* search call returns or raises (DDGS(timeout=10)), so a running task ends
\* a running task ends: what FinishTask does to l_tarefa.  A step of NextLote
\* is a Terminar step exactly when it is a FinishTask step, and Terminar is
\* enabled exactly when FinishTask is.
Terminar ==
    \E i \in Linhas :
        /\ l_tarefa[i] = "running"
        /\ l_tarefa' = [l_tarefa EXCEPT ![i] = "finished"]

FairLote ==
    /\ WF_vars(Submit)
    /\ WF_vars(StartCollect)
    /\ WF_vars(StartTask)
    /\ WF_l_tarefa(Terminar)
    /\ WF_vars(Collect)
    /\ WF_vars(Return)

SpecLoteFair == InitLote /\ [][NextLote]_vars /\ FairLote

(***************************************************************************)
(* extrair_palavras_chave on its own: a record with at most MaxCampos       *)
(* columns, among the columns of campos_texto and two others.              *)
(***************************************************************************)
ColunasExtrai == Range(campos_texto) \cup {"uf", "cnae"}

ValoresCampo ==
    { NaN, None, NA, Str(<<>>), Str(<<" ">>),
      Str(<<"M", "e", " ", "a", "b">>),
      Str(<<"A^", "b", " ", "c">>),
      Str(<<"1", "2">>) }

EmpresasExtrai ==
    UNION { [cols -> ValoresCampo] :
              cols \in {c \in SUBSET ColunasExtrai : Cardinality(c) <= MaxCampos} }

InitExtrai ==
    /\ e_empresa \in EmpresasExtrai
    /\ e_ret = PendingE
    /\ MatchUnused
    /\ BuscaUnused
    /\ LoteUnused
    /\ FiltroUnused
    /\ PaginaUnused
    /\ AppUnused

Extrair ==
    /\ e_ret = PendingE
    /\ e_ret' = [feito |-> TRUE, palavras |-> extrair_palavras_chave(e_empresa)]
    /\ UNCHANGED <<e_empresa, match_vars, busca_vars, lote_vars, filtro_vars, pagina_vars,
                   app_vars>>

NextExtrai == Extrair

SpecExtrai == InitExtrai /\ [][NextExtrai]_vars

(***************************************************************************)
(* core/database.py: carregar_dados_filtrados, and carregar_dados of app.py *)
(*                                                                         *)
(* The database is the list of rows of estabelecimentos LEFT JOIN          *)
(* estabelecimento_cnaes.  data_situacao_cadastral is a code: DataNula for *)
(* NULL, DataZero for '0', DataInvalida for eight characters that are not  *)
(* a date, and 1, 2, ... for dates in their order, which is also the order *)
(* of their YYYYMMDD texts.                                                *)
(***************************************************************************)
MAPEAMENTO_SITUACAO == [c \in {1, 2, 3, 4, 8} |->
    CASE c = 1 -> "Nula" [] c = 2 -> "Ativa" [] c = 3 -> "Suspensa"
      [] c = 4 -> "Inapta" [] OTHER -> "Baixada"]

MAPEAMENTO_SITUACAO_REVERSO ==
    [v \in Range(MAPEAMENTO_SITUACAO) |->
        CHOOSE k \in DOMAIN MAPEAMENTO_SITUACAO : MAPEAMENTO_SITUACAO[k] = v]

LIMITE == 2000000

DataNula == -1
DataZero == 0
DataInvalida == 9
DatasValidas == {1, 2}
SemData == 0
SemCnae == "NULL"

\* dados/municipios.csv: the municipality with code 1 is "bb"; code 7 is not
\* in the file
Digito(n) == <<"1", "2", "3", "4", "5", "6", "7", "8", "9">>[n]
codigo_para_nome == [c \in {1} |-> <<"b", "b">>]
nome_para_codigo == [n \in {<<"b", "b">>} |-> 1]

\* f"Código {codigo}", the name carregar_opcoes_filtros gives to a code that
\* is not in the file
NomeCodigo(codigo) == <<"C", "o^", "d", "i", "g", "o", " ", Digito(codigo)>>
\* 'Município ' + str(codigo), the name carregar_dados_filtrados gives to it
NomeMunicipio(codigo) ==
    <<"M", "u", "n", "i", "c", "i^", "p", "i", "o", " ", Digito(codigo)>>

\* converter_yyyymmdd_para_date: None for '0' and for what is not a date
converter_yyyymmdd_para_date(d) == IF d \in DatasValidas THEN d ELSE SemData

\* WHERE of the base query (lines 134-137)
FiltroBase(r) ==
    /\ r.uf = "RS"
    /\ r.situacao_cadastral = 2
    /\ r.data_situacao_cadastral /= DataNula
    /\ r.data_situacao_cadastral /= DataZero

\* lines 143-152: the codes of the names that are in the file
CodigosMunicipios(municipios) ==
    {nome_para_codigo[nome] : nome \in municipios \cap DOMAIN nome_para_codigo}

\* the rows the query of lines 124-173 selects
Consulta(banco, f) ==
    LET codigos == CodigosMunicipios(f.municipios)
        Passa(r) ==
            /\ FiltroBase(r)
            /\ codigos /= {} => r.municipio \in codigos
            /\ f.cnaes /= {} => r.cnae \in f.cnaes
            /\ f.situacoes /= {} => r.situacao_cadastral \in f.situacoes
            /\ (f.data_inicio /= SemData /\ f.data_fim /= SemData) =>
                   /\ f.data_inicio <= r.data_situacao_cadastral
                   /\ r.data_situacao_cadastral <= f.data_fim
        linhas == SelectSeq(banco, Passa)
    IN SubSeq(linhas, 1, Min(LIMITE, Len(linhas)))

\* lines 178-186: the date converted, rows without a date dropped, the name
\* of the municipality added
PosProcessa(linhas) ==
    LET comData == SelectSeq(linhas,
                     LAMBDA r : converter_yyyymmdd_para_date(r.data_situacao_cadastral)
                                    /= SemData)
    IN [i \in 1..Len(comData) |->
          LET r == comData[i]
          IN [cnpj_basico |-> r.cnpj,
              situacao_cadastral |-> r.situacao_cadastral,
              data_situacao_cadastral |-> r.data_situacao_cadastral,
              municipio |-> r.municipio,
              uf |-> r.uf,
              cnae |-> r.cnae,
              municipio_nome |->
                  IF r.municipio \in DOMAIN codigo_para_nome
                  THEN Str(codigo_para_nome[r.municipio])
                  ELSE Str(NomeMunicipio(r.municipio))]]

\* f.falha: the connection or the query raises, and the except clause of
\* lines 190-194 returns an empty DataFrame
carregar_dados_filtrados(banco, f) ==
    IF f.falha THEN <<>> ELSE PosProcessa(Consulta(banco, f))

\* app.py lines 59-104: the selections of the session become the arguments,
\* and the label of the status and the columns derived from the date are added
carregar_dados(banco, sessao, falha) ==
    LET df == carregar_dados_filtrados(banco,
                [municipios |-> sessao.municipio_selecionado,
                 cnaes |-> sessao.cnae_selecionado,
                 situacoes |-> {MAPEAMENTO_SITUACAO_REVERSO[l] :
                                   l \in sessao.situacao_selecionada},
                 data_inicio |-> sessao.periodo_selecionado[1],
                 data_fim |-> sessao.periodo_selecionado[2],
                 falha |-> falha])
    IN [i \in 1..Len(df) |->
          [c \in DOMAIN df[i] \cup {"ano_situacao", "mes_ano_situacao",
                                     "situacao_cadastral_label"} |->
              CASE c = "situacao_cadastral_label" ->
                       IF df[i].situacao_cadastral \in DOMAIN MAPEAMENTO_SITUACAO
                       THEN MAPEAMENTO_SITUACAO[df[i].situacao_cadastral]
                       ELSE "Outra"
                [] c \in {"ano_situacao", "mes_ano_situacao"} ->
                       df[i].data_situacao_cadastral
                [] c = "cnae" ->
                       IF df[i].cnae = SemCnae THEN "None" ELSE df[i].cnae
                [] OTHER -> df[i][c]]]

\* the kinds of row: an active RS row of municipality 1 with CNAE "A", and
\* the rows that differ from it in one column
LinhaTipica == [situacao_cadastral |-> 2, data_situacao_cadastral |-> 1,
                municipio |-> 1, uf |-> "RS", cnae |-> "A"]

TiposDeLinha ==
    {LinhaTipica}
    \cup {[LinhaTipica EXCEPT !.situacao_cadastral = 8]}
    \cup {[LinhaTipica EXCEPT !.data_situacao_cadastral = d] :
             d \in {DataNula, DataZero, DataInvalida, 2}}
    \cup {[LinhaTipica EXCEPT !.municipio = 7]}
    \cup {[LinhaTipica EXCEPT !.uf = "SC"]}
    \cup {[LinhaTipica EXCEPT !.cnae = c] : c \in {SemCnae, "B"}}

\* the databases: up to MaxBanco rows, the identifier of a row is its position
Bancos ==
    UNION {{[i \in 1..n |->
               [c \in DOMAIN t[i] \cup {"cnpj"} |->
                   IF c = "cnpj" THEN Str(<<Digito(i)>>) ELSE t[i][c]]] :
              t \in [1..n -> TiposDeLinha]} : n \in 0..MaxBanco}

Periodos == {<<SemData, SemData>>, <<1, 1>>, <<1, 2>>, <<2, 2>>}

\* the arguments of carregar_dados_filtrados
Filtros ==
    [municipios : SUBSET {<<"b", "b">>, NomeCodigo(7)},
     cnaes : SUBSET {"A"},
     situacoes : SUBSET {2, 8},
     data_inicio : {SemData, 1, 2},
     data_fim : {SemData, 1, 2},
     falha : BOOLEAN]

InitFiltro ==
    /\ f_banco \in Bancos
    /\ f_filtros \in {f \in Filtros :
                        /\ <<f.data_inicio, f.data_fim>> \in Periodos
                        /\ f.falha => f = [SemFiltros EXCEPT !.falha = TRUE]}
    /\ f_df = PendingF
    /\ MatchUnused
    /\ BuscaUnused
    /\ LoteUnused
    /\ ExtraiUnused
    /\ PaginaUnused
    /\ AppUnused

CarregarDadosFiltrados ==
    /\ f_df = PendingF
    /\ f_df' = [feito |-> TRUE, linhas |-> carregar_dados_filtrados(f_banco, f_filtros)]
    /\ UNCHANGED <<f_banco, f_filtros, match_vars, busca_vars, lote_vars, extrai_vars,
                   pagina_vars, app_vars>>

NextFiltro == CarregarDadosFiltrados

SpecFiltro == InitFiltro /\ [][NextFiltro]_vars

(***************************************************************************)
(* The Instagram page run on the dataset the main page loads when the      *)
(* session starts: carregar_opcoes_filtros, inicializar_estado, the first  *)
(* carregar_dados (app.py line 169), then buscar_em_lote(df_filtrado).     *)
(***************************************************************************)
SetMin(S) == CHOOSE x \in S : \A y \in S : x <= y
SetMax(S) == CHOOSE x \in S : \A y \in S : y <= x

\* database.py lines 196-282
carregar_opcoes_filtros(banco) ==
    LET ativos == {r \in Range(banco) : r.uf = "RS" /\ r.situacao_cadastral = 2}
        datas == {r.data_situacao_cadastral : r \in ativos}
                     \cap (DatasValidas \cup {DataInvalida})
    IN [municipios |->
            {IF r.municipio \in DOMAIN codigo_para_nome
             THEN codigo_para_nome[r.municipio]
             ELSE NomeCodigo(r.municipio) : r \in ativos},
        cnaes |-> {r.cnae : r \in ativos} \ {SemCnae},
        situacoes |-> {r.situacao_cadastral : r \in ativos},
        min_data |-> IF datas = {} THEN SemData
                     ELSE converter_yyyymmdd_para_date(SetMin(datas)),
        max_data |-> IF datas = {} THEN SemData
                     ELSE converter_yyyymmdd_para_date(SetMax(datas))]

\* app.py lines 36-55
inicializar_estado(opcoes) ==
    [municipio_selecionado |-> {},
     cnae_selecionado |-> {},
     situacao_selecionada |-> {},
     periodo_selecionado |->
         IF opcoes.min_data /= SemData /\ opcoes.max_data /= SemData
         THEN <<opcoes.min_data, opcoes.max_data>>
         ELSE <<SemData, SemData>>]

\* st.session_state.df_filtrado after the first run of app.py
DfFiltradoInicial(banco) ==
    carregar_dados(banco, inicializar_estado(carregar_opcoes_filtros(banco)), FALSE)

\* pages/6 lines 31-35 and 48: the page stops on an empty dataset, otherwise
\* the thread is given a copy of df_filtrado
InitLotePagina ==
    /\ \E banco \in Bancos :
          /\ DfFiltradoInicial(banco) /= <<>>
          /\ l_linhas = DfFiltradoInicial(banco)
          /\ l_respostas = [i \in DOMAIN DfFiltradoInicial(banco) |-> RespostaPerfil]
    /\ l_pc = "submit"
    /\ l_tarefa = [i \in Linhas |-> "none"]
    /\ l_retorno = [i \in Linhas |-> NaoTerminou]
    /\ l_coletados = {}
    /\ l_resultados = <<>>
    /\ l_erros = 0
    /\ MatchUnused
    /\ BuscaUnused
    /\ DemaisUnused

SpecLotePagina == InitLotePagina /\ [][NextLote]_vars

(***************************************************************************)
(* pages/6_Buscador_Instagram.py: the session state of the page, its two   *)
(* buttons and the threads it starts.  A thread is the number of the       *)
(* search that started it; its results are named by the same number.  A    *)
(* run of the script is one step; the two assignments of                   *)
(* run_scraping_thread are two steps.                                      *)
(***************************************************************************)
InitPagina ==
    /\ g_in_progress = FALSE
    /\ g_results = Nenhum
    /\ g_thread = Nenhum
    /\ g_threads = <<>>
    /\ MatchUnused
    /\ BuscaUnused
    /\ LoteUnused
    /\ ExtraiUnused
    /\ FiltroUnused
    /\ AppUnused

outras_vars == <<match_vars, busca_vars, lote_vars, extrai_vars, filtro_vars, app_vars>>

\* the threads inside buscar_em_lote (line 19)
Buscando == {t \in DOMAIN g_threads : g_threads[t] = "running"}

\* "Iniciar Busca dos Perfis" clicked (lines 43-51); the button is disabled
\* while scraping_in_progress
IniciarBusca ==
    /\ ~g_in_progress
    /\ Len(g_threads) < MaxBuscas
    /\ g_in_progress' = TRUE
    /\ g_results' = Nenhum
    /\ g_thread' = Len(g_threads) + 1
    /\ g_threads' = Append(g_threads, "running")
    /\ UNCHANGED outras_vars

\* "Limpar Resultados" clicked (lines 54-58); the button is disabled when
\* nothing is in progress and there are no results
LimparResultados ==
    /\ g_in_progress \/ g_results /= Nenhum
    /\ g_in_progress' = FALSE
    /\ g_results' = Nenhum
    /\ g_thread' = Nenhum
    /\ UNCHANGED <<g_threads, outras_vars>>

\* buscar_em_lote returned in thread t and line 20 stores its results
GuardarResultados ==
    \E t \in DOMAIN g_threads :
        /\ g_threads[t] = "running"
        /\ g_threads' = [g_threads EXCEPT ![t] = "stored"]
        /\ g_results' = t
        /\ UNCHANGED <<g_in_progress, g_thread, outras_vars>>

\* line 21 in thread t, which then ends
SinalizarFim ==
    \E t \in DOMAIN g_threads :
        /\ g_threads[t] = "stored"
        /\ g_threads' = [g_threads EXCEPT ![t] = "done"]
        /\ g_in_progress' = FALSE
        /\ UNCHANGED <<g_results, g_thread, outras_vars>>

NextPagina == IniciarBusca \/ LimparResultados \/ GuardarResultados \/ SinalizarFim

SpecPagina == InitPagina /\ [][NextPagina]_vars

(***************************************************************************)
(* app.py: the sidebar of the main page.  A step is one run of the script: *)
(* the first run of the session, a run after a widget changed, a run with  *)
(* "Aplicar Filtros" clicked, a run with "Limpar Filtros" clicked.         *)
(* a_usados records what carregar_dados read the last time it ran.         *)
(***************************************************************************)
\* lines 115, 124, 133-134, 143-155: what the four widgets let the user select
Selecoes(opcoes) ==
    [municipio_selecionado : SUBSET opcoes.municipios,
     cnae_selecionado : SUBSET opcoes.cnaes,
     situacao_selecionada :
         SUBSET {MAPEAMENTO_SITUACAO[c] :
                    c \in opcoes.situacoes \cap DOMAIN MAPEAMENTO_SITUACAO},
     periodo_selecionado :
         IF opcoes.min_data /= SemData /\ opcoes.max_data /= SemData
         THEN {p \in (opcoes.min_data..opcoes.max_data)
                         \X (opcoes.min_data..opcoes.max_data) : p[1] <= p[2]}
         ELSE {<<SemData, SemData>>}]

\* the first run: inicializar_estado, then line 169 loads df_filtrado
InitApp ==
    /\ a_banco \in Bancos
    /\ a_sessao = inicializar_estado(carregar_opcoes_filtros(a_banco))
    /\ a_usados = a_sessao
    /\ \E falha \in BOOLEAN : a_df = carregar_dados(a_banco, a_sessao, falha)
    /\ MatchUnused
    /\ BuscaUnused
    /\ LoteUnused
    /\ ExtraiUnused
    /\ FiltroUnused
    /\ PaginaUnused

nao_app_vars ==
    <<match_vars, busca_vars, lote_vars, extrai_vars, filtro_vars, pagina_vars>>

\* the user changes one widget and the script reruns: lines 116, 125, 135 and
\* 146 store the widgets' values, no button is clicked, line 173 keeps
\* df_filtrado
MudarSelecao ==
    /\ \E s \in Selecoes(carregar_opcoes_filtros(a_banco)) :
          /\ Cardinality({c \in DOMAIN s : s[c] /= a_sessao[c]}) = 1
          /\ a_sessao' = s
    /\ UNCHANGED <<a_banco, a_usados, a_df, nao_app_vars>>

\* "Aplicar Filtros" clicked: lines 169-171 load df_filtrado with the
\* selections of the session
AplicarFiltros ==
    /\ \E falha \in BOOLEAN : a_df' = carregar_dados(a_banco, a_sessao, falha)
    /\ a_usados' = a_sessao
    /\ UNCHANGED <<a_banco, a_sessao, nao_app_vars>>

\* "Limpar Filtros" clicked: lines 161-166 reset the selections and rerun
\* the script, which keeps df_filtrado (line 173)
LimparFiltros ==
    /\ a_sessao' =
          [municipio_selecionado |-> {}, cnae_selecionado |-> {},
           situacao_selecionada |-> {},
           periodo_selecionado |->
               <<carregar_opcoes_filtros(a_banco).min_data,
                 carregar_opcoes_filtros(a_banco).max_data>>]
    /\ UNCHANGED <<a_banco, a_usados, a_df, nao_app_vars>>

NextApp == MudarSelecao \/ AplicarFiltros \/ LimparFiltros

SpecApp == InitApp /\ [][NextApp]_vars

(***************************************************************************)
(* The three uses together.                                                *)
(***************************************************************************)
\* the match rule on its own and inside the search of one record
InitValida == InitMatch \/ InitBusca

NextValida == NextMatch \/ NextBusca

SpecValida == InitValida /\ [][NextValida]_vars

Init == InitMatch \/ InitBusca \/ InitLote \/ InitExtrai \/ InitFiltro \/ InitPagina \/ InitApp

Next == NextMatch \/ NextBusca \/ NextLote \/ NextExtrai \/ NextFiltro \/ NextPagina \/ NextApp

Spec == Init /\ [][Next]_vars

(***************************************************************************)
(* The match rule.                                                         *)
(***************************************************************************)
MatchDone == m_ret /= Pending /\ m_ret /= Unused

\* C1: for every non-empty fingerprint F and every candidate text, matched is
\* true exactly when found/|F| >= 1/5 or found >= 2, found being the number
\* of matched tokens; the ratio boundary is inclusive.
C1_MatchRule ==
    (MatchDone /\ m_palavras /= {}) =>
        LET found == Len(m_ret.palavras)
            total == Cardinality(m_palavras)
        IN m_ret.tem <=> (5 * found >= total \/ found >= 2)

\* one matched token of five: the boundary of the ratio
C1_Witness ==
    /\ MatchDone
    /\ Cardinality(m_palavras) = 5
    /\ Len(m_ret.palavras) = 1
    /\ m_ret.tem

\* the letter a character stands for once case and accent are removed
LetraBase(c) ==
    CASE c \in {"a", "A", "a^", "A^"} -> "a"
      [] c = "B" -> "b"
      [] c = "C" -> "c"
      [] c = "M" -> "m"
      [] c = "N" -> "n"
      [] c = "S" -> "s"
      [] OTHER -> c

\* the text without its accents and in lowercase
RECURSIVE SemAcentoMinusculo(_)
SemAcentoMinusculo(t) ==
    IF t = <<>> THEN <<>>
    ELSE IF Head(t) = "^" THEN SemAcentoMinusculo(Tail(t))
    ELSE <<LetraBase(Head(t))>> \o SemAcentoMinusculo(Tail(t))

\* the texts that differ from t only in the case or the accent of letters
RECURSIVE Variantes(_)
Variantes(t) ==
    IF t = <<>> THEN {<<>>}
    ELSE LET cs == IF LetraBase(Head(t)) = "a" THEN {"a", "A", "a^", "A^"}
                   ELSE {Head(t)}
         IN {<<c>> \o v : c \in cs, v \in Variantes(Tail(t))}

\* C3: the matched-token list is exactly the set of fingerprint tokens that
\* occur as a substring of the accent-stripped, lowercased candidate text,
\* each token once; two texts that differ only in case or accents give the
\* same outcome for the same fingerprint.
C3_MatchedTokens ==
    MatchDone =>
        /\ Range(m_ret.palavras) =
              IF m_descricao.tipo = "str"
              THEN {p \in m_palavras :
                        IsSubstring(p, SemAcentoMinusculo(m_descricao.s))}
              ELSE {}
        /\ Len(m_ret.palavras) = Cardinality(Range(m_ret.palavras))
        /\ m_descricao.tipo = "str" =>
              \A v \in Variantes(m_descricao.s) :
                  verificar_correspondencia_descricao(m_palavras, Str(v)) = m_ret

\* an uppercase, accented text in which two tokens of the fingerprint occur
C3_Witness ==
    /\ MatchDone
    /\ m_descricao = Str(<<"A^", "b", "c">>)
    /\ Range(m_ret.palavras) = {<<"a", "b">>, <<"b", "c">>}
    /\ Cardinality(m_palavras) > 2

(***************************************************************************)
(* The search for one record.                                              *)
(***************************************************************************)
BuscaDone == p_ret /= PendingP /\ p_ret /= UnusedP

\* processar_empresa went past the check of its fields and searched
Buscou == BuscaDone /\ p_ret.eventos /= <<>>

\* the record has a legal name and a municipality that are text, so that the
\* search is the ordinary one
ComDados ==
    /\ Buscou
    /\ Get(p_empresa, "razao_social").tipo = "str"
    /\ Get(p_empresa, "municipio_nome").tipo = "str"

\* C2: verificar_correspondencia_descricao returns (False, []) whenever the
\* fingerprint is empty or the candidate text is empty or absent; a record
\* whose fingerprint is empty is never given the status "Perfil Validado".
C2_EmptyNeverMatches ==
    /\ (MatchDone /\ (m_palavras = {} \/ m_descricao \in {Str(<<>>), None, NaN}))
           => m_ret = NoMatch
    /\ (Buscou /\ ~p_ret.exc /\ p_ret.outcome.palavras_chave_usadas = Str(<<>>))
           => p_ret.outcome.status_validacao /= "Perfil Validado"

\* a searched record without keywords, for which the provider returned an
\* Instagram result with text
C2_Witness ==
    /\ Buscou
    /\ p_ret.outcome.palavras_chave_usadas = Str(<<>>)
    /\ p_resposta.falha = "none"
    /\ \E i \in DOMAIN p_resposta.resultados :
          /\ MencionaInstagram(p_resposta.resultados[i].href)
          /\ p_resposta.resultados[i].body /= <<>>
    /\ p_ret.outcome.status_validacao = "Nenhum perfil validado"

\* the host of an absolute URL: the pieces between the scheme and the first
\* "/" or "?"
RECURSIVE AteSeparador(_)
AteSeparador(u) ==
    IF u = <<>> \/ Head(u) \in {"/", "?"} THEN <<>>
    ELSE <<Head(u)>> \o AteSeparador(Tail(u))

HostDe(url) ==
    IF url /= <<>> /\ Head(url) = "https://" THEN AteSeparador(Tail(url))
    ELSE <<>>

HostInstagram(url) ==
    HostDe(url) \in {<<"instagram.com">>, <<"www.", "instagram.com">>}

\* the result passes the match rule for the record searched
PassaRegra(resultado) ==
    verificar_correspondencia_descricao(
        extrair_palavras_chave(p_empresa), Str(Descricao(resultado))).tem

\* the results the provider yielded before it stopped or failed
Yielded == p_resposta.resultados

\* C4: the search returns the earliest result, in the order the provider
\* yields them, that has a profile-domain URL and passes the match rule, and
\* examines no result after it.
C4_FirstMatchWins ==
    ComDados =>
        LET validos == {i \in DOMAIN Yielded :
                           HostInstagram(Yielded[i].href) /\ PassaRegra(Yielded[i])}
        IN IF validos = {}
           THEN p_ret.busca.origem = 0
           ELSE LET primeiro == CHOOSE i \in validos : \A j \in validos : i <= j
                IN p_ret.busca.origem = primeiro /\ p_ret.busca.examinados = primeiro

\* C5: a result is returned only if its URL's host is the Instagram host.
C5_OnlyProfileHost ==
    (ComDados /\ p_ret.busca.origem /= 0) =>
        HostInstagram(Yielded[p_ret.busca.origem].href)

\* C6: a URL returned has no "?" and does not end with a slash.
C6_UrlNormalized ==
    (ComDados /\ p_ret.busca.origem /= 0) =>
        LET u == p_ret.busca.url.s
        IN /\ \A i \in DOMAIN u : u[i] /= "?"
           /\ u /= <<>> => u[Len(u)] /= "/"

\* C7: the outcome of a searched record has status "Perfil Validado" and
\* carries the resolved URL exactly when some examined candidate matched;
\* otherwise the status is "Nenhum perfil validado", the URL is the sentinel
\* and the matched-token field is empty.
C7_StatusIffMatched ==
    (Buscou /\ ~p_ret.exc) =>
        LET casou == \E i \in 1..p_ret.busca.examinados :
                        MencionaInstagram(Yielded[i].href) /\ PassaRegra(Yielded[i])
            o == p_ret.outcome
        IN IF casou
           THEN /\ o.status_validacao = "Perfil Validado"
                /\ p_ret.busca.url.tipo = "str"
                /\ o.instagram_url = p_ret.busca.url.s
                /\ o.instagram_url /= NaoEncontrado
           ELSE /\ o.status_validacao = "Nenhum perfil validado"
                /\ o.instagram_url = NaoEncontrado
                /\ o.palavras_encontradas = Str(<<>>)

\* the second of two candidates matched
C7_Witness ==
    /\ Buscou
    /\ p_ret.busca.examinados = 2
    /\ p_ret.busca.origem = 2
    /\ p_ret.outcome.status_validacao = "Perfil Validado"

\* the provider raised: on opening, on the query, or while iterating after
\* results none of which was returned
ProvedorFalhou ==
    /\ Buscou
    /\ \/ p_resposta.falha \in {"open", "query"}
       \/ /\ p_resposta.falha = "iter"
          /\ p_ret.busca.examinados = Len(Yielded)
          /\ \A i \in DOMAIN Yielded :
                ~(MencionaInstagram(Yielded[i].href) /\ PassaRegra(Yielded[i]))

\* C8: if the provider fails at any point, buscar_e_validar_perfil returns
\* (None, []) without raising and the record yields a "Nenhum perfil
\* validado" outcome.
C8_FailureContained ==
    ProvedorFalhou =>
        /\ ~p_ret.busca.exc
        /\ ~p_ret.exc
        /\ p_ret.busca.url = None
        /\ p_ret.busca.palavras = <<>>
        /\ p_ret.outcome.status_validacao = "Nenhum perfil validado"

\* the provider raised while iterating, after two results
C8_Witness ==
    /\ ProvedorFalhou
    /\ p_resposta.falha = "iter"
    /\ Len(Yielded) = 2
    /\ p_ret.outcome.status_validacao = "Nenhum perfil validado"

\* the field is absent from the row, null (NaN/None) or empty
Falta(campo) ==
    \/ campo \notin DOMAIN p_empresa
    \/ p_empresa[campo] \in {NaN, None, Str(<<>>)}

\* no field of the record is pd.NA (for which the check of the fields raises)
SemNA == \A c \in DOMAIN p_empresa : p_empresa[c] /= NA

\* C9: a record whose razao_social or municipio_nome is missing gets the
\* insufficient-data outcome, with no provider call and no delay.
C9_InsufficientData ==
    (BuscaDone /\ SemNA /\ (Falta("razao_social") \/ Falta("municipio_nome"))) =>
        /\ ~p_ret.exc
        /\ p_ret.outcome.status_validacao = "Falha"
        /\ p_ret.outcome.instagram_url = DadosInsuficientes
        /\ p_ret.eventos = <<>>

(***************************************************************************)
(* The batch.                                                              *)
(***************************************************************************)
\* the entries of resultados that are for row i
EntradasDe(i) == {k \in DOMAIN l_resultados : l_resultados[k].linha = i}

\* C10: the list returned holds exactly one outcome for each row whose task
\* did not raise and nothing else; a task that raises contributes no outcome
\* and does not keep a sibling from finishing and contributing its outcome.
C10_OneOutcomePerRow ==
    /\ \A k \in DOMAIN l_resultados :
          LET i == l_resultados[k].linha
          IN /\ i \in Linhas
             /\ l_tarefa[i] = "finished"
             /\ ~l_retorno[i].exc
             /\ l_resultados[k].outcome = l_retorno[i].outcome
             /\ EntradasDe(i) = {k}
    /\ Len(l_resultados) <= Len(l_linhas)
    /\ l_pc = "returned" =>
          \A i \in Linhas :
              /\ l_tarefa[i] = "finished"
              /\ Cardinality(EntradasDe(i)) = IF l_retorno[i].exc THEN 0 ELSE 1

\* buscar_em_lote returned; one task raised and the others gave an outcome
C10_Witness ==
    /\ l_pc = "returned"
    /\ Len(l_linhas) >= 3
    /\ \E i \in Linhas : l_retorno[i].exc
    /\ Len(l_resultados) = Len(l_linhas) - 1

\* every row has a legal name and a municipality that are text, and the
\* search call of exactly one row raises
UmaBuscaFalha ==
    /\ \A i \in Linhas :
          /\ Get(l_linhas[i], "razao_social").tipo = "str"
          /\ Truthy(Get(l_linhas[i], "razao_social"))
          /\ Get(l_linhas[i], "municipio_nome").tipo = "str"
          /\ Truthy(Get(l_linhas[i], "municipio_nome"))
    /\ Cardinality({i \in Linhas : l_respostas[i].falha /= "none"}) = 1

\* C11 as stated (for a batch of n rows instead of 10): when the search call
\* of exactly one row raises, the list returned has n - 1 entries.
C11_FailingRowDropped ==
    (l_pc = "returned" /\ UmaBuscaFalha) =>
        Len(l_resultados) = Len(l_linhas) - 1

\* C11 amended: the list returned has one entry per row, n entries; the entry
\* of the row whose search call raised is a "Nenhum perfil validado" outcome;
\* nothing was raised to buscar_em_lote's loop.
C11_FailingRowKept ==
    (l_pc = "returned" /\ UmaBuscaFalha) =>
        /\ Len(l_resultados) = Len(l_linhas)
        /\ l_erros = 0
        /\ \A i \in Linhas :
              l_respostas[i].falha /= "none" =>
                  \E k \in DOMAIN l_resultados :
                      /\ l_resultados[k].linha = i
                      /\ l_resultados[k].outcome.status_validacao
                             = "Nenhum perfil validado"

\* more rows than workers, the search call of one row raised
C11_Witness ==
    /\ l_pc = "returned"
    /\ UmaBuscaFalha
    /\ Len(l_linhas) > NUM_THREADS
    /\ Len(l_resultados) = Len(l_linhas)

\* C12: at the moment buscar_em_lote returns, every task it submitted has
\* finished and every outcome a task produced is in the list returned.
C12_AllDoneAtReturn ==
    [][(l_pc /= "returned" /\ l_pc' = "returned") =>
          \A i \in DOMAIN l_linhas' :
              /\ l_tarefa'[i] = "finished"
              /\ ~l_retorno'[i].exc =>
                    \E k \in DOMAIN l_resultados' :
                        l_resultados'[k] =
                            [linha |-> i, outcome |-> l_retorno'[i].outcome]]_vars

\* returned with more rows than workers, all finished
C12_Witness ==
    /\ l_pc = "returned"
    /\ Len(l_linhas) > NUM_THREADS
    /\ \A i \in Linhas : l_tarefa[i] = "finished"
    /\ Len(l_resultados) >= NUM_THREADS

\* C13: with a fair scheduler and search calls that return or raise,
\* buscar_em_lote eventually returns its list, whatever tasks or search
\* calls fail; it never ends by raising.
C13_EventuallyReturns ==
    <>(l_pc = "returned" /\ Len(l_resultados) + l_erros = Len(l_linhas))

\* returned although one task raised
C13_Witness ==
    /\ l_pc = "returned"
    /\ l_erros = 1
    /\ Len(l_linhas) > NUM_THREADS

\* C14: at no point are more than NUM_THREADS tasks executing; the other
\* submitted tasks wait in the queue.
C14_AtMostNumThreads ==
    /\ Cardinality(Running) <= NUM_THREADS
    /\ \A i \in Linhas :
          l_tarefa[i] = "queued" =>
              \/ Cardinality(Running) = NUM_THREADS
              \/ ENABLED StartTask

\* four tasks running and a fifth waiting
C14_Witness ==
    /\ Cardinality(Running) = NUM_THREADS
    /\ \E i \in Linhas : l_tarefa[i] = "queued"

\* the words of a text: its maximal runs of characters that are not spaces
PalavrasDe(t) ==
    UNION {{SubSeq(t, i, j) : j \in {k \in i..Len(t) :
                                       /\ \A n \in i..k : t[n] /= " "
                                       /\ (k = Len(t) \/ t[k + 1] = " ")}} :
             i \in {k \in 1..Len(t) : k = 1 \/ t[k - 1] = " "}}

\* the tokens a column value stands for: none when the column is absent,
\* null or blank, the words of at least two characters of its folded text
\* otherwise
TokensDoCampo(empresa, campo) ==
    IF campo \in DOMAIN empresa /\ empresa[campo].tipo = "str"
    THEN {w \in PalavrasDe(SemAcentoMinusculo(empresa[campo].s)) : Len(w) >= 2}
    ELSE {}

NoveCampos ==
    {"razao_social", "nome_fantasia", "logradouro", "complemento", "bairro",
     "correio_eletronico", "telefone1", "cep_limpo", "municipio_nome"}

\* C15 as stated: the fingerprint is the union of the tokens of the nine
\* fields legal name, trade name, street, complement, district, email,
\* phone, postal code and municipality name, minus the stop words; no other
\* field, the identifier included, contributes.
C15_NineFields ==
    e_ret.feito =>
        e_ret.palavras =
            UNION {TokensDoCampo(e_empresa, c) : c \in NoveCampos} \ palavras_comuns

\* C15 amended: the fingerprint is the union of the tokens of ten fields, the
\* nine above and the identifier cnpj_basico, minus the stop words; no other
\* field contributes, and an absent, null or blank field contributes nothing.
C15_TenFields ==
    e_ret.feito =>
        e_ret.palavras =
            UNION {TokensDoCampo(e_empresa, c) : c \in NoveCampos \cup {"cnpj_basico"}}
                \ palavras_comuns

\* the identifier holds a token and a column outside the list holds text
C15_Witness ==
    /\ e_ret.feito
    /\ "cnpj_basico" \in DOMAIN e_empresa
    /\ e_empresa["cnpj_basico"] = Str(<<"1", "2">>)
    /\ "cnae" \in DOMAIN e_empresa
    /\ e_empresa["cnae"] = Str(<<"M", "e", " ", "a", "b">>)
    /\ e_ret.palavras = {<<"1", "2">>}

Maiusculas == {"A", "A^", "B", "C", "M", "N", "S"}
Acentuados == {"a^", "A^", "^"}

\* C16: every token of the fingerprint is in lowercase, without accents, at
\* least two characters long and not a stop word, also when the same word
\* occurs in several fields.
C16_TokensNormalized ==
    e_ret.feito =>
        \A p \in e_ret.palavras :
            /\ Len(p) >= 2
            /\ p \notin palavras_comuns
            /\ \A k \in 1..Len(p) : p[k] \notin Maiusculas \cup Acentuados \cup {" "}

\* the same words, a stop word among them, in two fields
C16_Witness ==
    /\ e_ret.feito
    /\ "razao_social" \in DOMAIN e_empresa
    /\ "nome_fantasia" \in DOMAIN e_empresa
    /\ e_empresa["razao_social"] = Str(<<"M", "e", " ", "a", "b">>)
    /\ e_empresa["nome_fantasia"] = Str(<<"A^", "b", " ", "c">>)
    /\ e_ret.palavras = {<<"a", "b">>}

\* C19: every outcome processar_empresa returns, on the insufficient-data
\* path too, has the same shape: the URL field is the URL of a result or the
\* "Nao encontrado" sentinel, and the fields of matched tokens and of the
\* fingerprint are comma-joined strings.
C19_SameShape ==
    (BuscaDone /\ ~p_ret.exc) =>
        /\ \/ p_ret.outcome.instagram_url = NaoEncontrado
           \/ \E k \in DOMAIN p_resposta.resultados :
                 p_ret.outcome.instagram_url = LimpaUrl(p_resposta.resultados[k].href)
        /\ p_ret.outcome.palavras_encontradas.tipo = "str"
        /\ p_ret.outcome.palavras_chave_usadas.tipo = "str"

\* the identifiers of the rows of a DataFrame
Cnpjs(linhas) == {linhas[i].cnpj_basico : i \in DOMAIN linhas}

\* the call returned, the database answered, and status is the only filter
SoSituacoes ==
    /\ f_df.feito
    /\ ~f_filtros.falha
    /\ f_filtros.situacoes /= {}
    /\ f_filtros.municipios = {}
    /\ f_filtros.cnaes = {}
    /\ f_filtros.data_inicio = SemData

\* C18: with a non-empty set S of statuses selected, the dataset loaded
\* consists of the RS records with a date whose status is in S: a status
\* other than "Ativa" returns the records that have that status.
C18_StatusFilter ==
    SoSituacoes =>
        Cnpjs(f_df.linhas) =
            {f_banco[i].cnpj : i \in
                {k \in DOMAIN f_banco :
                    /\ f_banco[k].uf = "RS"
                    /\ f_banco[k].data_situacao_cadastral \in DatasValidas
                    /\ f_banco[k].situacao_cadastral \in f_filtros.situacoes}}

\* C17: the rows the Instagram page hands to buscar_em_lote carry the legal
\* name and the municipality name, so that a batch over a non-empty dataset
\* searches for its records instead of ending every one of them as
\* "Dados insuficientes".
C17_RowsReachSearch ==
    l_pc = "returned" =>
        /\ \A i \in Linhas :
              {"razao_social", "municipio_nome"} \subseteq DOMAIN l_linhas[i]
        /\ \E k \in DOMAIN l_resultados :
              l_resultados[k].outcome.instagram_url /= DadosInsuficientes

\* C20: whatever "Iniciar Busca" and "Limpar Resultados" clicks and thread
\* completions happened, at most one background batch search is running.
C20_OneSearchAtATime == Cardinality(Buscando) <= 1

\* the search started last, or Nenhum when none was started
UltimaBusca == Len(g_threads)

\* C21: scraping_results, when it is not None, is the result of the search
\* started last; after "Limpar Resultados" (scraping_thread is None until
\* the next start) scraping_results stays None and scraping_in_progress
\* stays False; scraping_in_progress is never False while the search
\* started last is still running.
C21_ResultsOfLatestSearch ==
    /\ g_results /= Nenhum => g_results = UltimaBusca
    /\ g_thread = Nenhum => (g_results = Nenhum /\ ~g_in_progress)
    /\ (UltimaBusca /= Nenhum /\ g_threads[UltimaBusca] = "running") => g_in_progress

\* the name under which the sidebar offers the municipality of a row
NomeNaBarra(codigo) ==
    IF codigo \in DOMAIN codigo_para_nome THEN codigo_para_nome[codigo]
    ELSE NomeCodigo(codigo)

\* C22: when carregar_dados_filtrados is given a non-empty selection of
\* municipality names that the sidebar offers, "Codigo <n>" names included,
\* every row it returns is of a selected municipality.
C22_MunicipioFilter ==
    (/\ f_df.feito
     /\ ~f_filtros.falha
     /\ f_filtros.municipios /= {}
     /\ f_filtros.municipios \subseteq carregar_opcoes_filtros(f_banco).municipios) =>
        \A i \in DOMAIN f_df.linhas :
            NomeNaBarra(f_df.linhas[i].municipio) \in f_filtros.municipios

\* C23: whatever widgets were changed and buttons clicked, the filter
\* selections of the session, which the report page lists as applied to the
\* report, are the ones that were used to load the df_filtrado it holds.
C23_SelectionsMatchDataset == a_sessao = a_usados

====
